---- MODULE Spec2Model ----
(***************************************************************************)
(* Verification model of tobiasli/my_weather.                              *)
(*                                                                         *)
(* Part 1: weather/utilities/rate_limiter.py (class RateLimiter).          *)
(*                                                                         *)
(* Representation of time.  The code stores absolute timestamps and only   *)
(* ever uses them in the comparison  now - timestamp < timespan.  The      *)
(* model stores every timestamp t as its age  now - t  (an integer number  *)
(* of clock ticks), saturated, and the action Tick (the clock advancing    *)
(* by one unit) ages every stored timestamp.  utctime_now() is             *)
(* therefore the age 0, and  now - t < timespan  is  age(t) < timespan.    *)
(* The ages in a limiter's history saturate at twice its timespan, those   *)
(* of the invocations at twice the largest timespan, so no comparison the  *)
(* code or a property makes is affected by the saturation.                 *)
(*                                                                         *)
(* sleep(wait_time) returns after at least wait_time: the sleeping context *)
(* resumes at any time once wait_time has passed.  A longer wait_time      *)
(* allows only behaviours that a shorter one allows too, so every limiter  *)
(* of the model has the default wait_time, 1.                              *)
(*                                                                         *)
(* Part 2: weather/service/service_manager.py (ServiceLoop, Service,       *)
(* MaintainerService, ServiceManager).  th[s] is the threading.Thread that *)
(* Service.thread of s refers to.  start() replaces that reference; if the *)
(* replaced thread is still running it runs on in orph.  The services have *)
(* no clock: time.sleep(task_delay) ends at some later moment, and every   *)
(* interleaving of the threads and the caller is a behaviour.              *)
(*                                                                         *)
(* Part 3: weather/service/data_collection_task.py (DataCollectionTask).   *)
(* collect_data is the task of a Service; what the remote DtsClient calls  *)
(* do (return data, return nothing, raise) is an input of every step.      *)
(*                                                                         *)
(* Part 4: weather/service/dtss_host.py (DtssHost).  The two callbacks are *)
(* functions of the registered repositories and of the urls given; a url   *)
(* is a scheme and an opaque path, and urllib.parse.urlparse hands the     *)
(* scheme over in lower case.                                              *)
(***************************************************************************)
EXTENDS Integers, Sequences, FiniteSets, TLC

\* ---- bounds of the model ------------------------------------------------
MaxLimit == 3       \* action_limit is drawn from 0..MaxLimit (1..MaxLimit for wrapped calls)
MaxSpan == 2        \* timespan is drawn from 1..MaxSpan clock units
MaxCallers == 2     \* execution contexts calling one rate-limited function

DefaultHealthCheckInterval == 60
DefaultWaitTime == 1  \* __init__: wait_time: TimeType = 1
MaxWrappers == 2    \* RateLimiters wrapped around one callable (test_double_decorate_function)

Cap == 2 * MaxSpan  \* no age is tracked beyond this
CountCap == MaxLimit + 1   \* the counters of calls and recorded actions stop here

MaxMembers == 2     \* Service objects a ServiceManager is given
MaxOrphans == 1     \* superseded threads that are followed until they end

Limiters == 1..MaxWrappers
Threads == 1..MaxCallers
Ages == 0..Cap

VARIABLES
    action_limit,       \* [Limiters -> Nat]   RateLimiter.action_limit
    timespan,           \* [Limiters -> Nat]   RateLimiter.timespan
    wait_time,          \* [Limiters -> Nat]   RateLimiter.wait_time
    action_timestamps,  \* [Limiters -> Seq(Ages)]  RateLimiter.action_timestamps (deque, oldest first)
    depth,              \* number of limiters wrapped around the function; limiter 1 is the outermost wrapper
    ncallers,           \* number of execution contexts that call the wrapped function
    pc,                 \* [Threads -> position of the context in rate_limited_func / check_next_rate]
    lvl,                \* [Threads -> the limiter whose wrapper the context is executing]
    next_timestamps,    \* [Threads -> Seq(Ages)]  local list of check_next_rate
    slept,              \* [Threads -> time spent so far in the current sleep(wait_time)]
    has_slept,          \* [Threads -> the current call has completed at least one sleep(wait_time)]
    ret,                \* value returned by the check_next_rate() call that has just returned
    recorded,           \* number of timestamps ever appended to limiter 1's history (up to CountCap)
    added,              \* add_action_timestamp() has been called on limiter 1
    log,                \* ages of the timestamps last appended to limiter 1's history, oldest
                        \*   first: one more than the history can hold
    calls,              \* number of calls of the wrapped function begun so far (up to CountCap)
    invoked             \* ages of the most recent invocations of the underlying function, oldest first

vars == <<action_limit, timespan, wait_time, action_timestamps, depth, ncallers, pc, lvl,
          next_timestamps, slept, has_slept, ret, recorded, added, log, calls, invoked>>

config == <<action_limit, timespan, wait_time, depth, ncallers>>

\* ---- state of the services (Part 2) ---------------------------------------
Maintainer == 0                  \* ServiceManager.maintainer
Members == 1..MaxMembers         \* the Service objects of the caller
Svc == {Maintainer} \cup Members

VARIABLES
    s_task,         \* [Svc -> BOOLEAN]  the argument task of __init__ was given
    s_interval,     \* [Svc -> Int]      the argument task_interval of __init__
    s_ra,           \* [Svc -> BOOLEAN]  the argument restart_action of __init__ was given
    s_made,         \* [Svc -> "no" | "ok" | "ServiceError"]  outcome of __init__
    health,         \* [Svc -> BOOLEAN]  what health_check_action() returns now
    th,             \* [Svc -> [st, cl, i]]  the Thread object Service.thread refers to:
                    \*   st  "none" (Service.thread is None), "loop" (at the while condition of
                    \*       ServiceLoop.__call__), "task" (inside self.task()), "sleep", "dead"
                    \*   cl  its attribute continue_loop
                    \*   i   inside the maintainer's task: index of the next member of the for loop
    orph,           \* threads that still run but that no Service.thread refers to any more:
                    \*   a set of [owner, st, cl, i]
    services,       \* ServiceManager.services, a sequence of Services
    obs             \* the call that has just returned: [op, svc, ret, trace, before]

svars == <<s_task, s_interval, s_ra, s_made, health, th, orph, services, obs>>

\* ---- state of a DataCollectionTask and of its calls (data_collection_task.py) -
MaxSeries == 2
MaxCycles == 2

VARIABLES
    t_made,         \* outcome of DataCollectionTask.__init__: "no", "ok" or "raised"
    t_nread,        \* len(self.read_ts)
    t_nstore,       \* len(self.store_ts_ids)
    c_pc,           \* position inside collect_data: "idle" (not inside), "read" (before the
                    \*   first try), "store" (before `if read_data:`), "end" (before it returns)
    c_cycle,        \* tag of the running or last call of collect_data (wraps at MaxCycles)
    read_data,      \* the local read_data: [st, n, cycle], st "None" or "data", n the number
                    \*   of series, cycle the call whose read produced it
    c_read,         \* what the read of this call did: "none", "data", "empty", "raised"
    c_store,        \* what the store of this call did: "none", "ok", "raised"
    c_stores,       \* number of calls of store_client.store_ts in this call
    c_stored,       \* the last store_ts call: [cycle, n] (the read it took its data from,
                    \*   the number of identifier/series pairs)
    hc              \* the last call of health_check: [read, store, ret]

cvars == <<t_made, t_nread, t_nstore, c_pc, c_cycle, read_data, c_read, c_store, c_stores,
           c_stored, hc>>

\* ---- state of a DtssHost and of its callbacks (dtss_host.py) ------------------
MaxBatch == 3

VARIABLES
    h_repos,        \* the keys of DtssHost.repos
    h_in,           \* the callback the host is serving: [op, ts_ids], op "none", "read" or "find"
                    \*   (a find carries its query as the only element of ts_ids)
    h_out           \* how it ended: [status, scheme, calls, value], status "none", "ok" or
                    \*   "DtssHostError" with the scheme named in the message; calls are the
                    \*   callbacks of repositories made, in order; value is what it returned

hvars == <<h_repos, h_in, h_out>>

dvars == <<cvars, hvars>>

allvars == <<vars, svars, dvars>>

NoThread == [st |-> "none", cl |-> FALSE, i |-> 0]

NoObs == [op |-> "none", svc |-> Maintainer, ret |-> "none", trace |-> <<>>, before |-> NoThread]

\* No manager, no started service, and nothing observed yet.
ServiceIdle ==
    /\ th = [s \in Svc |-> NoThread]
    /\ orph = {}
    /\ services = <<>>
    /\ obs = NoObs

\* The rate limiter is used without any service.
NoServices ==
    /\ s_task = [s \in Svc |-> FALSE]
    /\ s_interval = [s \in Svc |-> 1]
    /\ s_ra = [s \in Svc |-> FALSE]
    /\ s_made = [s \in Svc |-> "no"]
    /\ health = [s \in Svc |-> TRUE]
    /\ ServiceIdle

Min(a, b) == IF a < b THEN a ELSE b

NoData == [st |-> "None", n |-> 0, cycle |-> 0]

NoStore == [cycle |-> 0, n |-> 0]

NoHealthCheck == [read |-> "none", store |-> "none", ret |-> "none"]

\* No call of collect_data is running and none has run.
CollectIdle ==
    /\ c_pc = "idle"
    /\ c_cycle = 0
    /\ read_data = NoData
    /\ c_read = "none"
    /\ c_store = "none"
    /\ c_stores = 0
    /\ c_stored = NoStore
    /\ hc = NoHealthCheck

NoCall == [op |-> "none", ts_ids |-> <<>>]

NoResult == [status |-> "none", scheme |-> "", calls |-> <<>>, value |-> <<>>]

\* No DtssHost has been made.
NoHost ==
    /\ h_repos = {}
    /\ h_in = NoCall
    /\ h_out = NoResult

\* The services and the rate limiter are used without any DataCollectionTask.
NoTasks ==
    /\ NoHost
    /\ t_made = "no"
    /\ t_nread = 0
    /\ t_nstore = 0
    /\ CollectIdle

\* ---- helpers of the time representation ---------------------------------
AgeSeq(s, d, cap) == [i \in DOMAIN s |-> Min(s[i] + d, cap)]

\* Beyond this age a timestamp of limiter l compares like any older one.
Horizon(l) == 2 * timespan[l]

\* The largest value of a configuration field among the limiters wrapped
\* around the function.
WrappedMax(field) ==
    CHOOSE m \in {field[l] : l \in 1..depth} : \A l \in 1..depth : field[l] <= m

\* The invocations of the underlying function that the model keeps: as many
\* as the largest action_limit, plus one, each tracked up to twice the
\* largest timespan.
InvokedKept == WrappedMax(action_limit) + 1

InvokedHorizon == 2 * WrappedMax(timespan)

LastN(s, n) == IF Len(s) <= n THEN s ELSE SubSeq(s, Len(s) - n + 1, Len(s))

\* The timestamp of age x is appended to limiter 1's history.
Logged(lg, x) == LastN(Append(lg, x), action_limit[1] + 1)

\* ---- Python sequence semantics -------------------------------------------
\* 1-based position of Python index i in a list of length Len(s); -0 is 0.
PyIndex(s, i) == IF i < 0 THEN Len(s) + i + 1 ELSE i + 1

PyIndexValid(s, i) == PyIndex(s, i) \in 1..Len(s)

\* list(d)[1:]
PySliceFrom1(s) == IF Len(s) = 0 THEN <<>> ELSE Tail(s)

\* deque(maxlen=maxlen).append(x): a full deque drops its oldest (leftmost) item.
DequeAppendNoEvict(d, x, maxlen) == Append(d, x)

DequeAppendLeft(d, x, maxlen) ==
    IF maxlen = 0 THEN <<>>
    ELSE IF Len(d) >= maxlen THEN <<x>> \o SubSeq(d, 1, Len(d) - 1)
    ELSE <<x>> \o d

DequeAppendEvictsNewest(d, x, maxlen) ==
    IF maxlen = 0 THEN <<>>
    ELSE IF Len(d) >= maxlen THEN Append(SubSeq(d, 1, Len(d) - 1), x)
    ELSE Append(d, x)

DequeAppend(d, x, maxlen) ==
    IF maxlen = 0 THEN <<>>
    ELSE IF Len(d) >= maxlen THEN Append(Tail(d), x)
    ELSE Append(d, x)

\* ---- RateLimiter._check_rate (lines 26-47) -----------------------------
\* ts holds ages relative to the clock read at line 42, so now - ts[i] is ts[i].
CheckRateLenLe(ts, limit, span) ==
    IF Len(ts) <= limit THEN "True"
    ELSE IF ~PyIndexValid(ts, -limit) THEN "IndexError"
    ELSE IF ts[PyIndex(ts, -limit)] < span THEN "False"
    ELSE "True"

CheckRateFlipped(ts, limit, span) ==
    IF Len(ts) < limit THEN "True"
    ELSE IF ~PyIndexValid(ts, -limit) THEN "IndexError"
    ELSE IF ts[PyIndex(ts, -limit)] > span THEN "False"
    ELSE "True"

CheckRate(ts, limit, span) ==
    IF Len(ts) < limit THEN "True"
    ELSE IF ~PyIndexValid(ts, -limit) THEN "IndexError"
    ELSE IF ts[PyIndex(ts, -limit)] < span THEN "False"
    ELSE "True"

\* ---- RateLimiter.check_next_rate, lines 59-61 ---------------------------
\* next_timestamps = list(self.action_timestamps)[1:]; next_timestamps.append(now)
NextTimestampsSlice2(history) == Append(PySliceFrom1(PySliceFrom1(history)), 0)

NextTimestamps(history) == Append(PySliceFrom1(history), 0)

\* ---- the clock ------------------------------------------------------------
\* One unit of time passes: every stored timestamp is one unit older, every
\* sleeping context has slept one unit longer, and a value returned earlier is
\* no longer the value of a call made now.
Tick ==
    /\ action_timestamps' = [l \in Limiters |-> AgeSeq(action_timestamps[l], 1, Horizon(l))]
    /\ next_timestamps' = [t \in Threads |-> AgeSeq(next_timestamps[t], 1, Horizon(lvl[t]))]
    /\ invoked' = AgeSeq(invoked, 1, InvokedHorizon)
    /\ slept' = [t \in Threads |-> IF pc[t] \in {"sleep", "bsleep"} THEN Min(slept[t] + 1, wait_time[lvl[t]]) ELSE slept[t]]
    /\ ret' = "none"
    /\ log' = AgeSeq(log, 1, Horizon(1))
    /\ UNCHANGED <<dvars, svars, config, pc, lvl, has_slept, recorded, added, calls>>

\* ---- rate_limited_func (lines 89-94) and check_next_and_wait (74-79) ------
\* A context begins a call of the wrapped function: it enters the outermost wrapper.
Call(t) ==
    /\ t <= ncallers
    /\ pc[t] = "idle"
    /\ pc' = [pc EXCEPT ![t] = "wait"]
    /\ lvl' = [lvl EXCEPT ![t] = 1]
    /\ has_slept' = [has_slept EXCEPT ![t] = FALSE]
    /\ calls' = Min(calls + 1, CountCap)
    /\ UNCHANGED <<dvars, svars, config, log, action_timestamps, next_timestamps, slept, ret, recorded, added, invoked>>

\* while-condition of check_next_and_wait: check_next_rate reads the clock
\* (line 59) and builds next_timestamps (lines 60-61).
WaitBegin(t) ==
    /\ pc[t] = "wait"
    /\ next_timestamps' = [next_timestamps EXCEPT ![t] = NextTimestamps(action_timestamps[lvl[t]])]
    /\ pc' = [pc EXCEPT ![t] = "check"]
    /\ UNCHANGED <<dvars, svars, config, log, action_timestamps, lvl, slept, has_slept, ret, recorded, added, calls, invoked>>

\* _check_rate reads the clock again (line 42) and decides; the while loop
\* of check_next_and_wait either sleeps (line 79) or returns to line 93.
WaitEnd(t) ==
    /\ pc[t] = "check"
    /\ LET r == CheckRate(next_timestamps[t], action_limit[lvl[t]], timespan[lvl[t]])
       IN  pc' = [pc EXCEPT ![t] = IF r = "True" THEN "perform"
                                   ELSE IF r = "False" THEN "sleep"
                                   ELSE "raised"]
    /\ next_timestamps' = [next_timestamps EXCEPT ![t] = <<>>]
    /\ slept' = [slept EXCEPT ![t] = 0]
    /\ UNCHANGED <<dvars, svars, config, log, action_timestamps, lvl, has_slept, ret, recorded, added, calls, invoked>>

\* sleep(self.wait_time) returns once wait_time has passed.
SleepEnd(t) ==
    /\ pc[t] = "sleep"
    /\ slept[t] >= wait_time[lvl[t]]
    /\ pc' = [pc EXCEPT ![t] = "wait"]
    /\ has_slept' = [has_slept EXCEPT ![t] = TRUE]
    /\ slept' = [slept EXCEPT ![t] = 0]
    /\ UNCHANGED <<dvars, svars, config, log, action_timestamps, lvl, next_timestamps, ret, recorded, added, calls, invoked>>

\* self.perform_action() (line 93), then func(*args) is entered (line 94):
\* func is the next wrapper when another limiter is wrapped inside this one.
PerformNothing(t) ==
    /\ pc[t] = "perform"
    /\ IF lvl[t] < depth
       THEN /\ lvl' = [lvl EXCEPT ![t] = @ + 1]
            /\ pc' = [pc EXCEPT ![t] = "wait"]
       ELSE /\ lvl' = lvl
            /\ pc' = [pc EXCEPT ![t] = "call"]
    /\ UNCHANGED <<dvars, svars, config, log, action_timestamps, recorded, next_timestamps, slept,
                   has_slept, ret, added, calls, invoked>>

Perform(t) ==
    /\ pc[t] = "perform"
    /\ action_timestamps' = [action_timestamps EXCEPT
           ![lvl[t]] = DequeAppend(@, 0, action_limit[lvl[t]])]
    /\ recorded' = IF lvl[t] = 1 THEN Min(recorded + 1, CountCap) ELSE recorded
    /\ log' = IF lvl[t] = 1 THEN Logged(log, 0) ELSE log
    /\ IF lvl[t] < depth
       THEN /\ lvl' = [lvl EXCEPT ![t] = @ + 1]
            /\ pc' = [pc EXCEPT ![t] = "wait"]
       ELSE /\ lvl' = lvl
            /\ pc' = [pc EXCEPT ![t] = "call"]
    /\ UNCHANGED <<dvars, svars, config, next_timestamps, slept, has_slept, ret, added, calls, invoked>>

\* The underlying function runs and returns through the wrappers.
Invoke(t) ==
    /\ pc[t] = "call"
    /\ invoked' = LastN(Append(invoked, 0), InvokedKept)
    /\ pc' = [pc EXCEPT ![t] = "idle"]
    /\ UNCHANGED <<dvars, svars, config, log, action_timestamps, lvl, next_timestamps, slept, has_slept, ret,
                   recorded, added, calls>>

\* The underlying function runs and raises: rate_limited_func has no handler,
\* the exception passes through the wrappers to the caller.
InvokeRaises(t) ==
    /\ pc[t] = "call"
    /\ invoked' = LastN(Append(invoked, 0), InvokedKept)
    /\ pc' = [pc EXCEPT ![t] = "idle"]
    /\ UNCHANGED <<dvars, svars, config, log, action_timestamps, lvl, next_timestamps, slept, has_slept, ret,
                   recorded, added, calls>>

\* ---- direct use of one RateLimiter by one caller --------------------------
\* check_next_rate(), lines 59-61.
CheckNextRateBegin ==
    /\ pc[1] = "idle"
    /\ next_timestamps' = [next_timestamps EXCEPT ![1] = NextTimestamps(action_timestamps[1])]
    /\ pc' = [pc EXCEPT ![1] = "check"]
    /\ ret' = "none"
    /\ UNCHANGED <<dvars, svars, config, log, action_timestamps, lvl, slept, has_slept, recorded, added, calls, invoked>>

\* check_next_rate(), lines 62-64: the value of _check_rate is returned.
CheckNextRateEnd ==
    /\ pc[1] = "check"
    /\ ret' = CheckRate(next_timestamps[1], action_limit[1], timespan[1])
    /\ next_timestamps' = [next_timestamps EXCEPT ![1] = <<>>]
    /\ pc' = [pc EXCEPT ![1] = "idle"]
    /\ UNCHANGED <<dvars, svars, config, log, action_timestamps, lvl, slept, has_slept, recorded, added, calls, invoked>>

\* perform_action(), lines 66-68.
PerformAction ==
    /\ pc[1] = "idle"
    /\ action_timestamps' = [action_timestamps EXCEPT ![1] = DequeAppend(@, 0, action_limit[1])]
    /\ recorded' = Min(recorded + 1, CountCap)
    /\ log' = Logged(log, 0)
    /\ ret' = "none"
    /\ UNCHANGED <<dvars, svars, config, pc, lvl, next_timestamps, slept, has_slept, added, calls, invoked>>

\* add_action_timestamp(timestamp), lines 70-72; the timestamp is any time up
\* to now, given by its age a.
AddActionTimestamp(a) ==
    /\ pc[1] = "idle"
    /\ action_timestamps' = [action_timestamps EXCEPT ![1] = DequeAppend(@, a, action_limit[1])]
    /\ recorded' = Min(recorded + 1, CountCap)
    /\ log' = Logged(log, a)
    /\ added' = TRUE
    /\ ret' = "none"
    /\ UNCHANGED <<dvars, svars, config, pc, lvl, next_timestamps, slept, has_slept, calls, invoked>>

\* ---- initial states ---------------------------------------------------------
\* RateLimiter.__init__ (lines 11-23): an empty deque(maxlen=action_limit).
InitLimiter ==
    /\ action_timestamps = [l \in Limiters |-> <<>>]
    /\ pc = [t \in Threads |-> "idle"]
    /\ lvl = [t \in Threads |-> 1]
    /\ next_timestamps = [t \in Threads |-> <<>>]
    /\ slept = [t \in Threads |-> 0]
    /\ has_slept = [t \in Threads |-> FALSE]
    /\ ret = "none"
    /\ recorded = 0
    /\ log = <<>>
    /\ added = FALSE
    /\ calls = 0
    /\ invoked = <<>>

InitState == InitLimiter /\ NoServices /\ NoTasks

\* The services are used without any rate limiter.
NoLimiter ==
    /\ action_limit = [l \in Limiters |-> 1]
    /\ timespan = [l \in Limiters |-> 1]
    /\ wait_time = [l \in Limiters |-> DefaultWaitTime]
    /\ depth = 1
    /\ ncallers = 1
    /\ InitLimiter

\* One limiter; limiter 2 is not wrapped around anything.
OneLimiter(limits) ==
    /\ \E L \in limits, T \in 1..MaxSpan :
          /\ action_limit = [l \in Limiters |-> L]
          /\ timespan = [l \in Limiters |-> T]
    /\ wait_time = [l \in Limiters |-> DefaultWaitTime]
    /\ depth = 1

\* One caller of a function wrapped by one limiter.
Init ==
    /\ OneLimiter(1..MaxLimit)
    /\ ncallers = 1
    /\ InitState

\* One caller of a function wrapped by two limiters.
InitDouble ==
    /\ action_limit \in [Limiters -> 1..MaxLimit]
    /\ timespan \in [Limiters -> 1..MaxSpan]
    /\ wait_time = [l \in Limiters |-> DefaultWaitTime]
    /\ depth = MaxWrappers
    /\ ncallers = 1
    /\ InitState

\* Several contexts calling a function wrapped by one limiter.
InitConcurrent ==
    /\ OneLimiter(1..MaxLimit)
    /\ ncallers = MaxCallers
    /\ InitState

\* One caller using the methods of one limiter directly.
InitApi ==
    /\ OneLimiter(0..MaxLimit)
    /\ ncallers = 1
    /\ InitState

Step(t) ==
    \/ Call(t) \/ WaitBegin(t) \/ WaitEnd(t) \/ SleepEnd(t) \/ Perform(t) \/ Invoke(t)
    \/ InvokeRaises(t)

Next ==
    \/ Tick
    \/ \E t \in Threads : Call(t)
    \/ \E t \in Threads : WaitBegin(t)
    \/ \E t \in Threads : WaitEnd(t)
    \/ \E t \in Threads : SleepEnd(t)
    \/ \E t \in Threads : Perform(t)
    \/ \E t \in Threads : Invoke(t)
    \/ \E t \in Threads : InvokeRaises(t)

NextApi ==
    \/ Tick
    \/ CheckNextRateBegin
    \/ CheckNextRateEnd
    \/ PerformAction
    \/ \E a \in 0..Horizon(1) : AddActionTimestamp(a)

Spec == Init /\ [][Next]_allvars

SpecDouble == InitDouble /\ [][Next]_allvars

SpecConcurrent == InitConcurrent /\ [][Next]_allvars

SpecApi == InitApi /\ [][NextApi]_allvars

\* The calling context keeps being scheduled and the clock keeps advancing.
FairSpec == Init /\ [][Next]_allvars /\ WF_allvars(Step(1)) /\ WF_allvars(Tick)

TypeOK ==
    /\ action_limit \in [Limiters -> 0..MaxLimit]
    /\ timespan \in [Limiters -> 1..MaxSpan]
    /\ wait_time \in [Limiters -> {DefaultWaitTime}]
    /\ \A l \in Limiters : \A i \in DOMAIN action_timestamps[l] : action_timestamps[l][i] \in 0..Horizon(l)
    /\ \A i \in DOMAIN invoked : invoked[i] \in Ages
    /\ depth \in Limiters
    /\ ncallers \in Threads
    /\ pc \in [Threads -> {"idle", "wait", "check", "sleep", "perform", "call", "raised",
                            "bwait", "bcheck", "bsleep", "badd", "fetch"}]
    /\ lvl \in [Threads -> Limiters]
    /\ ret \in {"none", "True", "False", "IndexError"}
    /\ recorded \in 0..CountCap
    /\ calls \in 0..CountCap
    /\ added \in BOOLEAN
    /\ \A i \in DOMAIN log : log[i] \in 0..Horizon(1)
    /\ Len(log) <= action_limit[1] + 1
    /\ Len(invoked) <= MaxLimit + 1

\* ======================= properties of the RateLimiter =======================
History == action_timestamps[1]

\* Among the tracked invocations of the underlying function, any
\* action_limit[l] + 1 consecutive ones span at least timespan[l]: no window
\* shorter than timespan[l] holds more than action_limit[l] invocations.  An
\* age that reached InvokedHorizon is no longer tracked exactly; the pair was
\* compared when the later invocation had age 0.
WindowBound(l) ==
    \A j \in 1..Len(invoked) :
        j > action_limit[l] =>
            \/ invoked[j - action_limit[l]] = InvokedHorizon
            \/ invoked[j - action_limit[l]] - invoked[j] >= timespan[l]

\* C1: one caller, one limiter: in every time window of length timespan the
\* underlying function is invoked at most action_limit times.
C1_AtMostLimitPerWindow == WindowBound(1)

\* The limiter held a call back: invocation action_limit + 1 has just run,
\* after sleeping, and the invocation action_limit before it is still tracked exactly.
C1_Witness ==
    /\ Len(invoked) = action_limit[1] + 1
    /\ invoked[Len(invoked)] = 0
    /\ invoked[1] < InvokedHorizon
    /\ has_slept[1]

\* C2: after any sequence of perform_action() and add_action_timestamp()
\* calls the history holds at most action_limit timestamps.
C2_HistoryBounded == \A l \in Limiters : Len(action_timestamps[l]) <= action_limit[l]

\* More timestamps were recorded than the history can hold, by both methods.
C2_Witness ==
    /\ action_limit[1] >= 1
    /\ recorded > action_limit[1]
    /\ added
    /\ Len(History) = action_limit[1]

\* C3: with action_limit >= 1, if fewer than action_limit actions have ever
\* been recorded, check_next_rate() returns true.
C3_TrueBelowLimit ==
    (ret # "none" /\ action_limit[1] >= 1 /\ recorded < action_limit[1]) => ret = "True"

\* C4 as stated: after exactly action_limit perform_action() calls made
\* within less than timespan, check_next_rate() evaluated less than timespan
\* after the last of them returns false.
C4_FalseAfterBurstOriginal ==
    (/\ ret # "none"
     /\ action_limit[1] >= 1
     /\ recorded = action_limit[1]
     /\ ~added
     /\ Len(History) = action_limit[1]
     /\ History[1] - History[Len(History)] < timespan[1]
     /\ History[Len(History)] < timespan[1])
    => ret = "False"

\* C4 amended: after exactly action_limit perform_action() calls,
\* check_next_rate() evaluated while less than timespan has passed since the
\* first of those calls returns false.
C4_FalseAfterBurst ==
    (/\ ret # "none"
     /\ action_limit[1] >= 1
     /\ recorded = action_limit[1]
     /\ ~added
     /\ Len(History) = action_limit[1]
     /\ History[1] < timespan[1])
    => ret = "False"

\* A burst of action_limit >= 2 actions spread over some time, then a check
\* within timespan of the first one, which returned false.
C4_Witness ==
    /\ ret = "False"
    /\ action_limit[1] >= 2
    /\ recorded = action_limit[1]
    /\ ~added
    /\ Len(History) = action_limit[1]
    /\ History[1] < timespan[1]
    /\ History[1] > History[Len(History)]

\* C5: when the history holds action_limit timestamps, check_next_rate()
\* returns true exactly when now minus the oldest retained timestamp is at
\* least timespan.
C5_TrueIffOldestExpired ==
    (ret # "none" /\ action_limit[1] >= 1 /\ Len(History) = action_limit[1])
    => (ret = "True" <=> History[1] >= timespan[1])

\* C6: one caller, two limiters wrapped around one function: the invocations
\* satisfy the bound of each limiter.
C6_BothLimitsHold == \A l \in Limiters : WindowBound(l)

\* Limiter 1 is the stricter on short windows, limiter 2 on long ones (as in
\* test_double_decorate_function), and more invocations than either limit
\* have happened, the last one just now after a sleep.
C6_Witness ==
    /\ depth >= 2
    /\ action_limit[1] < action_limit[2]
    /\ timespan[1] < timespan[2]
    /\ Len(invoked) > action_limit[2]
    /\ invoked[Len(invoked)] = 0
    /\ has_slept[1]

\* C7: starting from an empty history, the first action_limit calls made in
\* immediate succession never sleep, and the next call, made while all of
\* them are less than timespan old, goes on to the function only after a sleep.
C7_FirstCallsDoNotSleep ==
    /\ (/\ calls <= action_limit[1]
        /\ \A i \in DOMAIN History : History[i] = 0
        /\ \A i \in DOMAIN invoked : invoked[i] = 0)
       => (pc[1] # "sleep" /\ ~has_slept[1])
    /\ (/\ calls = action_limit[1] + 1
        /\ pc[1] = "perform"
        /\ ~has_slept[1])
       => History[1] >= timespan[1]

\* C8: check_next_and_wait() never raises and eventually returns; after a
\* sleep it tests check_next_rate() again.
C8_WaitReturns ==
    /\ [](pc[1] # "raised")
    /\ (pc[1] = "wait") ~> (pc[1] = "perform")
    /\ [][pc[1] = "sleep" => pc'[1] \in {"sleep", "wait"}]_allvars

\* C9: a limiter with action_limit = 0 returns false from check_next_rate()
\* in every state and never fails with an index error.
C9_ZeroLimitAlwaysFalse ==
    (ret # "none" /\ action_limit[1] = 0) => ret = "False"

\* C10: with several contexts calling the same rate-limited function, no
\* window of length timespan holds more than action_limit invocations.
C10_ConcurrentAtMostLimitPerWindow == ncallers > 1 => WindowBound(1)

\* ======================= Part 2: the services ================================
\* The threads as a call finds them; trace collects the calls it makes in turn.
XState == [th |-> th, orph |-> orph, trace |-> <<>>]

\* threading.Thread.is_alive()
IsAlive(r) == r.st \in {"loop", "task", "sleep"}

Called(X, name) == [X EXCEPT !.trace = Append(@, name)]

\* ---- Service.healthy (lines 92-98) ------------------------------------------
ServiceHealthyNoThread(X, s) == health[s]

ServiceHealthy(X, s) ==
    LET service_health ==
            IF s_task[s]
            THEN (IF X.th[s].st # "none" THEN IsAlive(X.th[s]) ELSE FALSE)
            ELSE TRUE
    IN  health[s] /\ service_health

\* ---- Service.start (lines 100-108) ------------------------------------------
\* The thread Service.thread referred to runs on if it is alive; at most
\* MaxOrphans such threads are followed.
Superseded(X, s) ==
    LET old == [owner |-> s, st |-> X.th[s].st, cl |-> X.th[s].cl, i |-> X.th[s].i]
    IN  IF IsAlive(X.th[s]) /\ Cardinality(X.orph \cup {old}) <= MaxOrphans
        THEN X.orph \cup {old}
        ELSE X.orph

ServiceStartAsleep(X, s) ==
    IF s_task[s]
    THEN [Called(X, "start") EXCEPT !.orph = Superseded(X, s),
                                    !.th[s] = [st |-> "sleep", cl |-> TRUE, i |-> 0]]
    ELSE Called(X, "start")

ServiceStart(X, s) ==
    IF s_task[s]
    THEN [Called(X, "start") EXCEPT !.orph = Superseded(X, s),
                                    !.th[s] = [st |-> "loop", cl |-> TRUE, i |-> 0]]
    ELSE Called(X, "start")

\* ---- Service.stop (lines 110-115) -------------------------------------------
ServiceStopToggles(X, s) ==
    IF s_task[s] /\ X.th[s].st # "none"
    THEN [Called(X, "stop") EXCEPT !.th[s].cl = ~@]
    ELSE Called(X, "stop")

ServiceStop(X, s) ==
    IF s_task[s] /\ X.th[s].st # "none"
    THEN [Called(X, "stop") EXCEPT !.th[s].cl = FALSE]
    ELSE Called(X, "stop")

\* ---- Service.restart (lines 117-122) ----------------------------------------
RestartAction(X, s) == IF s_ra[s] THEN Called(X, "restart_action") ELSE X

ServiceRestartStartFirst(X, s) == ServiceStop(RestartAction(ServiceStart(X, s), s), s)

ServiceRestart(X, s) == ServiceStart(RestartAction(ServiceStop(X, s), s), s)

\* ---- the calls of the owner of one Service ----------------------------------
Apply(X) == th' = X.th /\ orph' = X.orph

Observe(name, s, r, X) ==
    obs' = [op |-> name, svc |-> s, ret |-> r, trace |-> X.trace, before |-> th[s]]

Frame == UNCHANGED <<vars, dvars, s_task, s_interval, s_ra, s_made, services>>

Healthy(s) ==
    /\ s_made[s] = "ok"
    /\ Observe("healthy", s, IF ServiceHealthy(XState, s) THEN "True" ELSE "False", XState)
    /\ UNCHANGED <<th, orph, health>>
    /\ Frame

Start(s) ==
    /\ s_made[s] = "ok"
    /\ LET X == ServiceStart(XState, s) IN Apply(X) /\ Observe("start", s, "none", X)
    /\ UNCHANGED health
    /\ Frame

Stop(s) ==
    /\ s_made[s] = "ok"
    /\ LET X == ServiceStop(XState, s) IN Apply(X) /\ Observe("stop", s, "none", X)
    /\ UNCHANGED health
    /\ Frame

Restart(s) ==
    /\ s_made[s] = "ok"
    /\ LET X == ServiceRestart(XState, s) IN Apply(X) /\ Observe("restart", s, "none", X)
    /\ UNCHANGED health
    /\ Frame

\* The condition health_check_action() reports changes.
SetHealth(s) ==
    /\ s_made[s] = "ok"
    /\ health' = [health EXCEPT ![s] = ~@]
    /\ obs' = NoObs
    /\ UNCHANGED <<th, orph>>
    /\ Frame

\* ---- ServiceLoop.__call__ (lines 39-50), one step of one thread -------------
\* A thread is named by what it is now: its owner, its position, and whether
\* Service.thread of the owner refers to it (cur).
Current(s) == [owner |-> s, st |-> th[s].st, cl |-> th[s].cl, i |-> th[s].i, cur |-> TRUE]

Orphan(r) == [owner |-> r.owner, st |-> r.st, cl |-> r.cl, i |-> r.i, cur |-> FALSE]

AsOrphan(h) == [owner |-> h.owner, st |-> h.st, cl |-> h.cl, i |-> h.i]

Exists(h) == IF h.cur THEN th[h.owner].st # "none" ELSE AsOrphan(h) \in orph

\* Thread h is at position st with loop index i; a thread that ended and that
\* nothing refers to is gone.
Moved(X, h, st, i) ==
    IF h.cur
    THEN [X EXCEPT !.th[h.owner].st = st, !.th[h.owner].i = i]
    ELSE [X EXCEPT !.orph = (@ \ {AsOrphan(h)}) \cup
                            (IF st = "dead" THEN {}
                             ELSE {[AsOrphan(h) EXCEPT !.st = st, !.i = i]})]

ThreadFrame == UNCHANGED <<vars, dvars, s_task, s_interval, s_ra, s_made, health, services>>

\* line 45: the while condition
ContinueLoopAlways(h) == TRUE

ContinueLoop(h) == h.cl

LoopCheck(h) ==
    /\ Exists(h)
    /\ h.st = "loop"
    /\ IF ContinueLoop(h)
       THEN Apply(Moved(XState, h, "task", IF h.owner = Maintainer THEN 1 ELSE 0))
       ELSE Apply(Moved(XState, h, "dead", 0))
    /\ obs' = NoObs
    /\ ThreadFrame

\* line 47: self.task() returns; the maintainer's task returns when its for
\* loop is exhausted
TaskReturn(h) ==
    /\ Exists(h)
    /\ h.st = "task"
    /\ h.owner = Maintainer => h.i > Len(services)
    /\ Apply(Moved(XState, h, "sleep", 0))
    /\ obs' = NoObs
    /\ ThreadFrame

\* line 47: the task of a member raises, which ends its thread
TaskRaiseSwallowed(h) ==
    /\ Exists(h)
    /\ h.st = "task"
    /\ h.owner # Maintainer
    /\ Apply(Moved(XState, h, "sleep", 0))
    /\ obs' = NoObs
    /\ ThreadFrame

TaskRaise(h) ==
    /\ Exists(h)
    /\ h.st = "task"
    /\ h.owner # Maintainer
    /\ Apply(Moved(XState, h, "dead", 0))
    /\ obs' = NoObs
    /\ ThreadFrame

\* line 48: time.sleep(self.task_delay) returns
LoopSleepEnd(h) ==
    /\ Exists(h)
    /\ h.st = "sleep"
    /\ Apply(Moved(XState, h, "loop", 0))
    /\ obs' = NoObs
    /\ ThreadFrame

\* ---- ServiceManager.check_service_health_and_restart (lines 190-195) --------
\* One iteration of the for loop, run by a thread of the maintainer.
NeedsRestartIgnoresCheck(X, m) == s_task[m] /\ ~IsAlive(X.th[m])

NeedsRestartInverted(X, m) == ServiceHealthy(X, m)

NeedsRestart(X, m) == ~ServiceHealthy(X, m)

SweepNextSkips(i) == i + 2

SweepNext(i) == i + 1

SweepStep(h) ==
    /\ Exists(h)
    /\ h.st = "task"
    /\ h.owner = Maintainer
    /\ h.i <= Len(services)
    /\ LET m == services[h.i]
           unhealthy == NeedsRestart(XState, m)
           X == IF unhealthy THEN ServiceRestart(XState, m) ELSE XState
       IN  /\ Apply(Moved(X, h, "task", SweepNext(h.i)))
           /\ Observe("sweep", m, IF ServiceHealthy(XState, m) THEN "True" ELSE "False", X)
    /\ ThreadFrame

ThreadStep(h) == LoopCheck(h) \/ TaskReturn(h) \/ TaskRaise(h) \/ LoopSleepEnd(h) \/ SweepStep(h)

CurrentStep(s) == ThreadStep(Current(s))

OrphanStep == \E r \in orph : ThreadStep(Orphan(r))

\* ---- one Service and its owner ----------------------------------------------
\* Service.__init__ (lines 56-90) has returned for member 1.
InitService ==
    /\ NoLimiter
    /\ NoTasks
    /\ s_task \in [Svc -> BOOLEAN] /\ \A s \in Svc \ {1} : ~s_task[s]
    /\ s_ra \in [Svc -> BOOLEAN] /\ \A s \in Svc \ {1} : ~s_ra[s]
    /\ s_interval = [s \in Svc |-> 1]
    /\ s_made = [s \in Svc |-> IF s = 1 THEN "ok" ELSE "no"]
    /\ health = [s \in Svc |-> TRUE]
    /\ ServiceIdle

NextService ==
    \/ \E s \in Members : Healthy(s)
    \/ \E s \in Members : Start(s)
    \/ \E s \in Members : Stop(s)
    \/ \E s \in Members : Restart(s)
    \/ \E s \in Members : SetHealth(s)
    \/ \E s \in Members : LoopCheck(Current(s))
    \/ \E s \in Members : TaskReturn(Current(s))
    \/ \E s \in Members : TaskRaise(Current(s))
    \/ \E s \in Members : LoopSleepEnd(Current(s))
    \/ \E r \in orph : LoopCheck(Orphan(r))
    \/ \E r \in orph : TaskReturn(Orphan(r))
    \/ \E r \in orph : TaskRaise(Orphan(r))
    \/ \E r \in orph : LoopSleepEnd(Orphan(r))

SpecService == InitService /\ [][NextService]_allvars

\* ---- Service.__init__ (line 81) and MaintainerService.__init__ (line 150) ---
ServiceInitRaisesNegative(task, task_interval) == task /\ task_interval < 0

ServiceInitRaises(task, task_interval) == task /\ task_interval <= 0

MaintainerInitRaises(task, task_interval) == task /\ task_interval <= 0

Intervals == {-1, 0, 1}

\* Service(name, task, task_interval, health_check_action, restart_action); the
\* caller constructs its Services in the order of their numbers.
Construct(s, task, task_interval, ra) ==
    /\ s_made[s] = "no"
    /\ \A k \in 1..(s - 1) : s_made[k] # "no"
    /\ s_task' = [s_task EXCEPT ![s] = task]
    /\ s_interval' = [s_interval EXCEPT ![s] = task_interval]
    /\ s_ra' = [s_ra EXCEPT ![s] = ra]
    /\ s_made' = [s_made EXCEPT ![s] =
                     IF ServiceInitRaises(task, task_interval) THEN "ServiceError" ELSE "ok"]
    /\ obs' = NoObs
    /\ UNCHANGED <<vars, dvars, health, th, orph, services>>

\* ---- ServiceManager.__init__ (lines 171-183) --------------------------------
\* The first n members, the list a caller hands over.
FirstMembers(n) == [k \in 1..n |-> k]

InitialServicesWithMaintainer(given) == Append(given, Maintainer)

InitialServices(given) == given

NewServiceManager(n, health_check_interval) ==
    /\ s_made[Maintainer] = "no"
    /\ \A k \in 1..n : s_made[k] = "ok"
    /\ s_task' = [s_task EXCEPT ![Maintainer] = TRUE]
    /\ s_interval' = [s_interval EXCEPT ![Maintainer] = health_check_interval]
    /\ IF MaintainerInitRaises(TRUE, health_check_interval)
       THEN /\ s_made' = [s_made EXCEPT ![Maintainer] = "ServiceError"]
            /\ UNCHANGED services
       ELSE /\ s_made' = [s_made EXCEPT ![Maintainer] = "ok"]
            /\ services' = InitialServices(FirstMembers(n))
    /\ obs' = NoObs
    /\ UNCHANGED <<vars, dvars, s_ra, health, th, orph>>

\* ---- ServiceManager.add_service (lines 185-188) -----------------------------
\* The caller adds its Services in the order of their numbers, each once.
AddServiceFirst(s) ==
    /\ s_made[Maintainer] = "ok"
    /\ s_made[s] = "ok"
    /\ s = Len(services) + 1
    /\ services' = <<s>> \o services
    /\ obs' = [NoObs EXCEPT !.op = "add_service", !.svc = s]
    /\ UNCHANGED <<vars, dvars, s_task, s_interval, s_ra, s_made, health, th, orph>>

AddService(s) ==
    /\ s_made[Maintainer] = "ok"
    /\ s_made[s] = "ok"
    /\ s = Len(services) + 1
    /\ services' = Append(services, s)
    /\ obs' = [NoObs EXCEPT !.op = "add_service", !.svc = s]
    /\ UNCHANGED <<vars, dvars, s_task, s_interval, s_ra, s_made, health, th, orph>>

\* ---- start_services, stop_services, restart_services (lines 197-214) --------
RECURSIVE StartAll(_, _)
StartAll(X, k) ==
    IF k > Len(services) THEN X ELSE StartAll(ServiceStart(X, services[k]), k + 1)

RECURSIVE StopAll(_, _)
StopAll(X, k) ==
    IF k > Len(services) THEN X ELSE StopAll(ServiceStop(X, services[k]), k + 1)

RECURSIVE RestartAll(_, _)
RestartAll(X, k) ==
    IF k > Len(services) THEN X ELSE RestartAll(ServiceRestart(X, services[k]), k + 1)

Running(s) == IsAlive(th[s]) /\ th[s].cl

\* The thread of the maintainer is alive and has not been signalled.
MaintainerRunning == Running(Maintainer)

\* The caller starts a manager none of whose Services is running.
StartServices ==
    /\ s_made[Maintainer] = "ok"
    /\ ~MaintainerRunning
    /\ \A k \in 1..Len(services) : ~Running(services[k])
    /\ LET X == ServiceStart(StartAll(XState, 1), Maintainer)
       IN  Apply(X) /\ obs' = [NoObs EXCEPT !.op = "start_services"]
    /\ UNCHANGED health
    /\ Frame

StopServices ==
    /\ s_made[Maintainer] = "ok"
    /\ LET X == StopAll(ServiceStop(XState, Maintainer), 1)
       IN  Apply(X) /\ obs' = [NoObs EXCEPT !.op = "stop_services"]
    /\ UNCHANGED health
    /\ Frame

RestartServices ==
    /\ s_made[Maintainer] = "ok"
    /\ LET X == ServiceStart(RestartAll(ServiceStop(XState, Maintainer), 1), Maintainer)
       IN  Apply(X) /\ obs' = [NoObs EXCEPT !.op = "restart_services"]
    /\ UNCHANGED health
    /\ Frame

\* ---- a ServiceManager, its members and its caller ---------------------------
\* Service.__init__ has returned for every member, each with a task and member 1
\* with a restart_action; there is no manager yet.
InitManager ==
    /\ NoLimiter
    /\ NoTasks
    /\ s_task = [s \in Svc |-> s # Maintainer]
    /\ s_ra = [s \in Svc |-> s = 1]
    /\ s_interval = [s \in Svc |-> 1]
    /\ s_made = [s \in Svc |-> IF s = Maintainer THEN "no" ELSE "ok"]
    /\ health = [s \in Svc |-> TRUE]
    /\ ServiceIdle

ThreadsNext ==
    \/ \E s \in Svc : LoopCheck(Current(s))
    \/ \E s \in Svc : TaskReturn(Current(s))
    \/ \E s \in Svc : TaskRaise(Current(s))
    \/ \E s \in Svc : LoopSleepEnd(Current(s))
    \/ \E s \in Svc : SweepStep(Current(s))
    \/ \E r \in orph : LoopCheck(Orphan(r))
    \/ \E r \in orph : TaskReturn(Orphan(r))
    \/ \E r \in orph : TaskRaise(Orphan(r))
    \/ \E r \in orph : LoopSleepEnd(Orphan(r))
    \/ \E r \in orph : SweepStep(Orphan(r))

ManagerCalls ==
    \/ \E s \in Members : AddService(s)
    \/ StartServices
    \/ StopServices
    \/ RestartServices

NextManager ==
    \/ \E n \in 0..MaxMembers : NewServiceManager(n, DefaultHealthCheckInterval)
    \/ ManagerCalls
    \/ \E s \in Members : SetHealth(s)
    \/ ThreadsNext

SpecManager == InitManager /\ [][NextManager]_allvars

\* The thread of the maintainer gets to run whenever it can, and its sleep ends.
FairSpecManager ==
    /\ InitManager
    /\ [][NextManager]_allvars
    /\ WF_allvars(CurrentStep(Maintainer))

\* ---- construction ------------------------------------------------------------
\* Nothing has been constructed.
InitConstruct ==
    /\ NoLimiter
    /\ NoTasks
    /\ NoServices

NextConstruct ==
    \/ \E s \in Members, task \in BOOLEAN, task_interval \in Intervals :
          Construct(s, task, task_interval, FALSE)
    \/ \E n \in 0..MaxMembers, health_check_interval \in Intervals :
          NewServiceManager(n, health_check_interval)
    \/ \E s \in Members : Start(s)
    \/ ManagerCalls
    \/ ThreadsNext

SpecConstruct == InitConstruct /\ [][NextConstruct]_allvars

\* Every thread that can run gets to run, the task of a signalled thread
\* returns or raises, and a sleep ends.
FairSpecService ==
    /\ InitService
    /\ [][NextService]_allvars
    /\ \A s \in Members : WF_allvars(CurrentStep(s))
    /\ WF_allvars(\E r \in orph : ~r.cl /\ ThreadStep(Orphan(r)))

\* ======================= properties of the services ==========================
\* C11: healthy() returns true exactly when health_check_action() returns true
\* and either no task is configured or the thread of the Service is alive; for
\* a Service with a task it is false before start(), and right after start()
\* it is true while health_check_action() returns true.
C11_HealthyIffCheckAndAlive ==
    /\ obs.op = "healthy" =>
          (obs.ret = "True" <=>
              health[obs.svc] /\ (~s_task[obs.svc] \/ IsAlive(th[obs.svc])))
    /\ (obs.op = "healthy" /\ s_task[obs.svc] /\ th[obs.svc].st = "none") => obs.ret = "False"
    /\ (obs.op = "start" /\ s_task[obs.svc] /\ health[obs.svc]) => ServiceHealthy(XState, obs.svc)

\* healthy() has returned true for a started Service with a task.
C11_Witness ==
    /\ obs.op = "healthy"
    /\ obs.ret = "True"
    /\ s_task[obs.svc]
    /\ IsAlive(th[obs.svc])

\* The number of threads of Service s that are inside its task.
InTask(s) ==
    (IF th[s].st = "task" THEN 1 ELSE 0)
    + Cardinality({r \in orph : r.owner = s /\ r.st = "task"})

\* C12: at no time are two executions of the task of the same Service in
\* progress.
C12_NoOverlappingCycles == \A s \in Svc : InTask(s) <= 1

\* A call of the owner: start(), stop() or restart().
OwnerCall == \E s \in Members : Start(s) \/ Stop(s) \/ Restart(s)

\* No thread whose continue_loop was set to False is alive.
NoSignalledAlive ==
    /\ \A s \in Svc : ~(IsAlive(th[s]) /\ ~th[s].cl)
    /\ \A r \in orph : r.cl

\* C13: a thread signalled by stop() is not interrupted inside its task, goes
\* from the task to the sleep and from the sleep to the loop condition, begins
\* no task once it is at the loop condition, and has ended some time after the
\* owner's last call.
C13_StopIsCooperative ==
    /\ [][\A s \in Members :
            /\ (obs'.op = "stop" /\ obs'.svc = s) => th'[s].st = th[s].st
            /\ (IsAlive(th[s]) /\ ~th[s].cl /\ ~th'[s].cl) =>
                  /\ th[s].st = "task" => th'[s].st \in {"task", "sleep", "dead"}
                  /\ th[s].st = "sleep" => th'[s].st \in {"sleep", "loop"}
                  /\ th[s].st = "loop" => th'[s].st \in {"loop", "dead"}]_allvars
    /\ [][\A r \in orph' :
            (~r.cl /\ r.st = "task") => (r \in orph \/ th[r.owner].st = "task")]_allvars
    /\ <>[][~OwnerCall]_allvars => <>[]NoSignalledAlive

\* stop() has returned on a Service whose thread is inside its task, and the
\* thread is still inside it.
C13_Witness ==
    /\ obs.op = "stop"
    /\ obs.before.st = "task"
    /\ obs.before.cl
    /\ th[obs.svc].st = "task"
    /\ ~th[obs.svc].cl

\* C14: stop() on a Service that was never started or is already stopped
\* raises nothing and changes no state.
C14_StopIdempotent ==
    [][\A s \in Members :
          (Stop(s) /\ (th[s].st = "none" \/ ~th[s].cl)) => UNCHANGED <<th, orph, health, services>>]_allvars

\* stop() has returned on a Service whose thread was already signalled.
C14_Witness ==
    /\ obs.op = "stop"
    /\ s_task[obs.svc]
    /\ obs.before.st # "none"
    /\ ~obs.before.cl

\* C19: restart() calls stop(), then restart_action() if one is configured,
\* then start(), in this order.
C19_RestartOrder ==
    obs.op = "restart" =>
        obs.trace = (IF s_ra[obs.svc]
                     THEN <<"stop", "restart_action", "start">>
                     ELSE <<"stop", "start">>)

\* restart() with a restart_action has returned on a running Service.
C19_Witness ==
    /\ obs.op = "restart"
    /\ s_ra[obs.svc]
    /\ IsAlive(obs.before)

\* C15: a Service, or the maintainer of a ServiceManager, constructed with a
\* task and an interval that is zero or negative: __init__ raises ServiceError
\* and no thread is ever created for it.
C15_BadIntervalRaises ==
    \A s \in Svc :
        (s_made[s] # "no" /\ s_task[s] /\ s_interval[s] <= 0) =>
            /\ s_made[s] = "ServiceError"
            /\ th[s].st = "none"
            /\ \A r \in orph : r.owner # s

\* A Service and a ServiceManager were refused, one with the interval 0 and one
\* with a negative interval, while another Service with a task runs.
C15_Witness ==
    /\ s_made[Maintainer] = "ServiceError"
    /\ \E s \in Members : s_made[s] = "ServiceError" /\ s_interval[s] # s_interval[Maintainer]
    /\ \E s \in Members : s_made[s] = "ok" /\ IsAlive(th[s])

\* The Services in ServiceManager.services.
Registered == {services[k] : k \in 1..Len(services)}

\* C16: an iteration of check_service_health_and_restart() examines a
\* registered member, calls restart() on it exactly if its healthy() is false,
\* and makes no call on it and leaves its thread as it is if it is healthy.
C16_SweepRestartsExactlyUnhealthy ==
    obs.op = "sweep" =>
        /\ obs.svc \in Registered
        /\ obs.ret = "False" =>
              /\ obs.trace = (IF s_ra[obs.svc]
                              THEN <<"stop", "restart_action", "start">>
                              ELSE <<"stop", "start">>)
              /\ th[obs.svc] = [st |-> "loop", cl |-> TRUE, i |-> 0]
        /\ obs.ret = "True" =>
              /\ obs.trace = <<>>
              /\ th[obs.svc] = obs.before
        /\ obs.ret = "True" <=>
              health[obs.svc] /\ (~s_task[obs.svc] \/ IsAlive(obs.before))

\* A sweep has restarted a member whose thread had ended.
C16_Witness ==
    /\ obs.op = "sweep"
    /\ obs.ret = "False"
    /\ obs.before.st = "dead"
    /\ health[obs.svc]

\* The call that has just returned is an iteration of a sweep in which
\* restart() was called on member s, and s has a new thread.
RestartedBySweep(s) ==
    /\ obs.op = "sweep"
    /\ obs.svc = s
    /\ obs.trace = (IF s_ra[s] THEN <<"stop", "restart_action", "start">> ELSE <<"stop", "start">>)
    /\ th[s] = [st |-> "loop", cl |-> TRUE, i |-> 0]

C18_MaintainerNotAMember ==
    /\ Maintainer \notin Registered
    /\ obs.op = "sweep" => obs.svc # Maintainer

\* Every member is registered and restart_services() has returned.
C18_Witness ==
    /\ Len(services) = MaxMembers
    /\ obs.op = "restart_services"
    /\ MaintainerRunning

\* C20: a registered member whose health_check_action() stays false while the
\* maintainer keeps running is restarted by sweeps again and again, without end.
C20_RestartsWithoutCeiling ==
    \A s \in Members :
        <>[](s \in Registered /\ ~health[s] /\ MaintainerRunning /\ obs.op # "restart_services")
            => []<>RestartedBySweep(s)

\* A sweep restarts a member that an earlier sweep has restarted already and
\* whose health_check_action() still returns false.
C20_Witness ==
    /\ obs.op = "sweep"
    /\ obs.ret = "False"
    /\ ~health[obs.svc]
    /\ obs.before.st = "loop"
    /\ \E r \in orph : r.owner = obs.svc /\ ~r.cl

\* ==== Part 3: DataCollectionTask (src/weather/service/data_collection_task.py) =
\* A Service (member 1) runs DataCollectionTask.collect_data as its task. The
\* remote DtsClient calls are inputs: a read returns some number of series or
\* raises, a store returns or raises, a find returns a non-empty or an empty
\* answer or raises.
Exceptions == {"RuntimeError", "ValueError"}

ReadOutcomes == [kind : {"returns"}, n : 0..MaxSeries] \cup [kind : Exceptions, n : {0}]

StoreOutcomes == {"ok"} \cup Exceptions

Answers == {"nonempty", "empty"} \cup Exceptions

\* __init__ (lines 76-103) stores its arguments and connects the clients; no
\* statement of it raises on the lengths of the two lists.
DataCollectionTaskInitRaises(nread, nstore) == FALSE

NextCycle(c) == (c % MaxCycles) + 1

\* `if read_data:` (line 145): None and an empty TsVector are false
TruthyNotNone(d) == d.st = "data"

Truthy(d) == d.st = "data" /\ d.n > 0

\* `except Exception` (lines 141 and 149)
CaughtOnlyRuntimeError(e) == e = "RuntimeError"

CaughtByExcept(e) == e \in Exceptions

\* perform_store (lines 120-126): zip(self.store_ts_ids, store_data) pairs the
\* two positionally and stops at the shorter one
PerformStore(nstore, d) == [cycle |-> d.cycle, n |-> Min(nstore, d.n)]

CollectFrame ==
    UNCHANGED <<vars, hvars, s_task, s_interval, s_ra, s_made, health, services, t_made,
                t_nread, t_nstore, hc>>

\* An exception leaves collect_data and ServiceLoop.__call__: the thread ends.
Propagated(h) == Apply(Moved(XState, h, "dead", 0)) /\ c_pc' = "idle"

\* line 47 of service_manager.py calls self.task(); line 138: read_data = None
StaleReadData(old) == old

FreshReadData(old) == NoData

CollectBegin(h) ==
    /\ Exists(h)
    /\ h.st = "task"
    /\ c_pc = "idle"
    /\ c_pc' = "read"
    /\ c_cycle' = NextCycle(c_cycle)
    /\ read_data' = FreshReadData(read_data)
    /\ c_read' = "none"
    /\ c_store' = "none"
    /\ c_stores' = 0
    /\ obs' = NoObs
    /\ UNCHANGED <<th, orph, c_stored>>
    /\ CollectFrame

\* lines 139-143: the first try statement
CollectRead(h, r) ==
    /\ Exists(h)
    /\ h.st = "task"
    /\ c_pc = "read"
    /\ IF r.kind = "returns"
       THEN /\ read_data' = [st |-> "data", n |-> r.n, cycle |-> c_cycle]
            /\ c_read' = IF r.n = 0 THEN "empty" ELSE "data"
            /\ c_pc' = "store"
            /\ UNCHANGED <<th, orph>>
       ELSE /\ c_read' = "raised"
            /\ UNCHANGED read_data
            /\ IF CaughtByExcept(r.kind)
               THEN c_pc' = "store" /\ UNCHANGED <<th, orph>>
               ELSE Propagated(h)
    /\ obs' = NoObs
    /\ UNCHANGED <<c_cycle, c_store, c_stores, c_stored>>
    /\ CollectFrame

\* lines 145-150: the if statement and the second try statement
CollectStore(h, w) ==
    /\ Exists(h)
    /\ h.st = "task"
    /\ c_pc = "store"
    /\ IF Truthy(read_data)
       THEN /\ c_stores' = c_stores + 1
            /\ c_stored' = PerformStore(t_nstore, read_data)
            /\ c_store' = IF w = "ok" THEN "ok" ELSE "raised"
            /\ IF w = "ok" \/ CaughtByExcept(w)
               THEN c_pc' = "end" /\ UNCHANGED <<th, orph>>
               ELSE Propagated(h)
       ELSE /\ w = "ok"
            /\ c_pc' = "end"
            /\ UNCHANGED <<th, orph, c_stores, c_stored, c_store>>
    /\ obs' = NoObs
    /\ UNCHANGED <<c_cycle, read_data, c_read>>
    /\ CollectFrame

\* collect_data returns to line 47 of service_manager.py
CollectReturn(h) ==
    /\ Exists(h)
    /\ h.st = "task"
    /\ c_pc = "end"
    /\ c_pc' = "idle"
    /\ Apply(Moved(XState, h, "sleep", 0))
    /\ obs' = NoObs
    /\ UNCHANGED <<c_cycle, read_data, c_read, c_store, c_stores, c_stored>>
    /\ CollectFrame

\* health_check (lines 128-134):
\*   return self.read_client.find(request) and self.store_client.find(request)
\* inside try ... except RuntimeError: return False
HealthCheckOnlyRead(r, w) ==
    [read |-> r, store |-> "notasked",
     ret |-> IF r = "RuntimeError" THEN "False" ELSE IF r \in Exceptions THEN "raised" ELSE r]

HealthCheckResult(r, w) ==
    IF r \in Exceptions
    THEN [read |-> r, store |-> "notasked", ret |-> IF r = "RuntimeError" THEN "False" ELSE "raised"]
    ELSE IF r = "empty"
    THEN [read |-> r, store |-> "notasked", ret |-> "empty"]
    ELSE IF w \in Exceptions
    THEN [read |-> r, store |-> w, ret |-> IF w = "RuntimeError" THEN "False" ELSE "raised"]
    ELSE [read |-> r, store |-> w, ret |-> w]

HealthCheck(r, w) ==
    /\ t_made = "ok"
    /\ hc' = HealthCheckResult(r, w)
    /\ UNCHANGED <<vars, svars, hvars, t_made, t_nread, t_nstore, c_pc, c_cycle, read_data,
                   c_read, c_store, c_stores, c_stored>>

\* DataCollectionTask.__init__ has run with lists of any two lengths, and where
\* it returned a Service was made of collect_data.
InitCollect ==
    /\ NoLimiter
    /\ t_nread \in 0..MaxSeries
    /\ t_nstore \in 0..MaxSeries
    /\ t_made = IF DataCollectionTaskInitRaises(t_nread, t_nstore) THEN "raised" ELSE "ok"
    /\ CollectIdle
    /\ NoHost
    /\ s_task = [s \in Svc |-> s = 1 /\ t_made = "ok"]
    /\ s_ra = [s \in Svc |-> FALSE]
    /\ s_interval = [s \in Svc |-> 1]
    /\ s_made = [s \in Svc |-> IF s = 1 /\ t_made = "ok" THEN "ok" ELSE "no"]
    /\ health = [s \in Svc |-> TRUE]
    /\ ServiceIdle

\* The steps of the thread of member 1.
CollectThread ==
    \/ LoopCheck(Current(1))
    \/ CollectBegin(Current(1))
    \/ \E r \in ReadOutcomes : CollectRead(Current(1), r)
    \/ \E w \in StoreOutcomes : CollectStore(Current(1), w)
    \/ CollectReturn(Current(1))
    \/ LoopSleepEnd(Current(1))

\* The owner starts the service when no thread of it runs, and stops it.
CollectCycles ==
    \/ ~IsAlive(th[1]) /\ Start(1)
    \/ Stop(1)
    \/ LoopCheck(Current(1))
    \/ CollectBegin(Current(1))
    \/ \E r \in ReadOutcomes : CollectRead(Current(1), r)
    \/ \E w \in StoreOutcomes : CollectStore(Current(1), w)
    \/ CollectReturn(Current(1))
    \/ LoopSleepEnd(Current(1))

NextCollect ==
    \/ CollectCycles
    \/ \E r \in Answers, w \in Answers : HealthCheck(r, w)

SpecCollect == InitCollect /\ [][NextCollect]_allvars

\* The service alone, without calls of health_check: the thread gets to run,
\* every remote call returns or raises, the sleep ends.
FairSpecCollect == InitCollect /\ [][CollectCycles]_allvars /\ WF_allvars(CollectThread)

\* ---- claims about DataCollectionTask ------------------------------------------
\* C21: a call of collect_data whose read returned an empty result, or whose
\* read raised, makes no store call at all.
C21_NoStoreWithoutData == c_read \in {"empty", "raised"} => c_stores = 0

\* An earlier call has stored data, and the read of the present call raised.
C21_Witness == c_stored # NoStore /\ c_read = "raised" /\ c_pc = "end"

\* C22: no exception of the read or of the store leaves collect_data: the
\* thread running it is never ended by the call, the call ends by returning to
\* the loop (which then sleeps), and after a call in which the read or the
\* store raised the same loop begins another call unless it was told to stop.
C22_CollectNeverRaises ==
    /\ [][c_pc # "idle" =>
            /\ th'[1].st # "dead"
            /\ c_pc' = "idle" => th'[1].st = "sleep"]_allvars
    /\ \A k \in 1..MaxCycles :
          (c_cycle = k /\ (c_read = "raised" \/ c_store = "raised")) ~> (c_cycle # k \/ ~th[1].cl)

\* The store of the last call raised, and its thread is back at the while
\* condition, not told to stop.
C22_Witness == c_store = "raised" /\ c_pc = "idle" /\ th[1].st = "loop" /\ th[1].cl

\* C23: a store call is made only after the read of the same call of
\* collect_data has returned, and it stores the data of that very read.
C23_ReadBeforeStore ==
    [][c_stores' > c_stores =>
          /\ c_pc = "store"
          /\ c_read = "data"
          /\ read_data.cycle = c_cycle
          /\ c_stored'.cycle = c_cycle]_allvars

\* The second call of collect_data has stored what it read.
C23_Witness == c_cycle = 2 /\ c_stores = 1 /\ c_stored.cycle = 2 /\ c_pc = "end"

\* C24: a task whose two identifier lists differ in length is refused by the
\* constructor, and never runs a call of collect_data.
C24_MismatchedListsRaise == t_nread # t_nstore => (t_made = "raised" /\ c_cycle = 0)

\* C25: health_check returns a true value only if both finds returned a
\* non-empty answer, and returns False when a find it made raised RuntimeError.
C25_HealthCheck ==
    /\ hc.ret = "nonempty" => (hc.read = "nonempty" /\ hc.store = "nonempty")
    /\ (hc.read = "RuntimeError" \/ hc.store = "RuntimeError") => hc.ret = "False"

\* The read endpoint answered and the store endpoint raised RuntimeError.
C25_Witness == hc.read = "nonempty" /\ hc.store = "RuntimeError" /\ hc.ret = "False"

\* ==== Part 4: DtssHost routing (src/weather/service/dtss_host.py) ==============
\* An identifier or query is a url scheme://path; the path is opaque to the host.
\* A repository answers a read with one series per identifier it was given and
\* a find with one answer for the query; a series is named by the repository
\* that made it, its position in the answer and the identifier it was made for.
Schemes == {"mock1", "MOCK1", "mock2"}

Paths == {"test/1", "test/2"}

Urls == [scheme : Schemes, path : Paths]

\* the names of _DEFAULT_DATA_COLLECTION_REPO_TYPE_LOOKUP that are used here
RepoTypes == {"mock1", "mock2"}

\* str.lower() on the schemes above
Lower(sch) == IF sch = "MOCK1" THEN "mock1" ELSE sch

\* urllib.parse.urlparse(url).scheme: the scheme in lower case
ParsedScheme(url) == Lower(url.scheme)

\* DtssHost.__init__ (lines 59-66): the configured repositories and the heartbeat
NewRepos(config_names) == (config_names \cap RepoTypes) \cup {"heartbeat"}

Batches == UNION {[1..n -> Urls] : n \in 0..MaxBatch}

RepoRead(name, ts_ids) ==
    [k \in 1..Len(ts_ids) |-> [repo |-> name, index |-> k, ts_id |-> ts_ids[k]]]

RepoFind(name, query) == <<[repo |-> name, index |-> 1, ts_id |-> query]>>

RoutingError(sch) == [status |-> "DtssHostError", scheme |-> sch, calls |-> <<>>, value |-> <<>>]

\* lines 137-142: data, a dict from repository name to the [enum, ts_id] items
\* of that name; its keys in insertion order
RECURSIVE DataKeys(_, _)
DataKeys(ts_ids, seen) ==
    IF ts_ids = <<>> THEN <<>>
    ELSE LET name == ParsedScheme(Head(ts_ids))
         IN  IF name \in seen THEN DataKeys(Tail(ts_ids), seen)
             ELSE <<name>> \o DataKeys(Tail(ts_ids), seen \cup {name})

Items(ts_ids) == [i \in 1..Len(ts_ids) |-> [enum |-> i, ts_id |-> ts_ids[i]]]

DataOf(ts_ids, name) ==
    LET OfName(item) == ParsedScheme(item.ts_id) = name
    IN  SelectSeq(Items(ts_ids), OfName)

\* lines 144-149: one read_callback per key of data, the answer attached by index
RepoCall(ts_ids, name) ==
    LET data == DataOf(ts_ids, name)
    IN  [repo |-> name, ts_ids |-> [k \in 1..Len(data) |-> data[k].ts_id]]

Answered(ts_ids, name) ==
    LET data == DataOf(ts_ids, name)
        tsvec == RepoRead(name, RepoCall(ts_ids, name).ts_ids)
    IN  [k \in 1..Len(data) |-> [enum |-> data[k].enum, ts |-> tsvec[k]]]

\* lines 152-155: the lists of data.values() one after the other
RECURSIVE Transpose(_, _)
Transpose(ts_ids, keys) ==
    IF keys = <<>> THEN <<>>
    ELSE Answered(ts_ids, Head(keys)) \o Transpose(ts_ids, Tail(keys))

\* line 155: sorted(transpose_data, key=lambda item: item['enum'])
Unsorted(items) == items

SortedByEnum(items) ==
    [i \in 1..Len(items) |->
        CHOOSE item \in {items[k] : k \in 1..Len(items)} :
            Cardinality({k \in 1..Len(items) : items[k].enum < item.enum}) = i - 1]

\* get_repo_name_from_url (lines 164-171) applied to each identifier in turn
\* (line 139): the first one whose scheme is no key of repos raises
Unrouted(repos, ts_ids) == {i \in 1..Len(ts_ids) : ParsedScheme(ts_ids[i]) \notin repos}

FirstUnrouted(repos, ts_ids) ==
    CHOOSE i \in Unrouted(repos, ts_ids) : \A j \in Unrouted(repos, ts_ids) : i <= j

\* DtssHost.read_callback (lines 123-157)
ReadCallback(repos, ts_ids) ==
    IF Unrouted(repos, ts_ids) # {}
    THEN RoutingError(ParsedScheme(ts_ids[FirstUnrouted(repos, ts_ids)]))
    ELSE LET keys == DataKeys(ts_ids, {})
             sort == SortedByEnum(Transpose(ts_ids, keys))
         IN  [status |-> "ok", scheme |-> "",
              calls |-> [k \in 1..Len(keys) |-> RepoCall(ts_ids, keys[k])],
              value |-> [i \in 1..Len(sort) |-> sort[i].ts]]

\* DtssHost.find_callback (lines 159-162)
FindCallback(repos, query) ==
    LET repo_name == ParsedScheme(query)
    IN  IF repo_name \notin repos
        THEN RoutingError(repo_name)
        ELSE [status |-> "ok", scheme |-> "",
              calls |-> <<[repo |-> repo_name, ts_ids |-> <<query>>]>>,
              value |-> RepoFind(repo_name, query)]

HostFrame == UNCHANGED <<vars, svars, cvars, h_repos>>

ReadCallbackCall(ts_ids) ==
    /\ h_in = NoCall
    /\ h_in' = [op |-> "read", ts_ids |-> ts_ids]
    /\ h_out' = ReadCallback(h_repos, ts_ids)
    /\ HostFrame

FindCallbackCall(query) ==
    /\ h_in = NoCall
    /\ h_in' = [op |-> "find", ts_ids |-> <<query>>]
    /\ h_out' = FindCallback(h_repos, query)
    /\ HostFrame

\* The DtsServer has taken the outcome of the callback; the host serves the
\* next request.
CallbackDone ==
    /\ h_in # NoCall
    /\ h_in' = NoCall
    /\ h_out' = NoResult
    /\ HostFrame

\* DtssHost.__init__ has returned for some configuration.
InitHost ==
    /\ NoLimiter
    /\ NoServices
    /\ t_made = "no" /\ t_nread = 0 /\ t_nstore = 0
    /\ CollectIdle
    /\ \E config_names \in SUBSET RepoTypes : h_repos = NewRepos(config_names)
    /\ h_in = NoCall
    /\ h_out = NoResult

NextHost ==
    \/ \E ts_ids \in Batches : ReadCallbackCall(ts_ids)
    \/ \E query \in Urls : FindCallbackCall(query)
    \/ CallbackDone

SpecHost == InitHost /\ [][NextHost]_allvars

\* ---- claims about DtssHost ----------------------------------------------------
\* The identifiers of a batch that carry scheme sch, in their order.
OfScheme(ts_ids, sch) ==
    LET HasScheme(url) == url.scheme = sch
    IN  SelectSeq(ts_ids, HasScheme)

\* The position of identifier i among the identifiers of its own scheme.
RankInScheme(ts_ids, i) == Cardinality({j \in 1..i : ts_ids[j].scheme = ts_ids[i].scheme})

SchemesOf(ts_ids) == {ts_ids[i].scheme : i \in 1..Len(ts_ids)}

\* Scheme sch differs from the key of a registered repository in letter case only.
CaseVariant(sch) == sch \notin h_repos /\ Lower(sch) \in h_repos

\* C26: for a batch whose schemes are all registered, read_callback calls the
\* repository of every scheme of the batch exactly once, with exactly the
\* identifiers of that scheme in input order, calls no other repository, and
\* returns at position i the series the owning repository made for identifier i.
C26_ReadRoutesAndKeepsOrder ==
    (h_in.op = "read" /\ SchemesOf(h_in.ts_ids) \subseteq h_repos) =>
        /\ h_out.status = "ok"
        /\ \A sch \in SchemesOf(h_in.ts_ids) :
              \E k \in 1..Len(h_out.calls) :
                  /\ h_out.calls[k] = [repo |-> sch, ts_ids |-> OfScheme(h_in.ts_ids, sch)]
                  /\ \A j \in 1..Len(h_out.calls) : h_out.calls[j].repo = sch => j = k
        /\ \A k \in 1..Len(h_out.calls) : h_out.calls[k].repo \in SchemesOf(h_in.ts_ids)
        /\ Len(h_out.value) = Len(h_in.ts_ids)
        /\ \A i \in 1..Len(h_in.ts_ids) :
              h_out.value[i] = [repo |-> h_in.ts_ids[i].scheme,
                                index |-> RankInScheme(h_in.ts_ids, i),
                                ts_id |-> h_in.ts_ids[i]]

\* A batch of three identifiers whose first and last belong to one repository
\* and whose middle one to another has been read.
C26_Witness ==
    /\ h_in.op = "read"
    /\ Len(h_in.ts_ids) = 3
    /\ h_in.ts_ids[1].scheme = "mock1" /\ h_in.ts_ids[2].scheme = "mock2"
    /\ h_in.ts_ids[3].scheme = "mock1" /\ h_in.ts_ids[3].path # h_in.ts_ids[1].path
    /\ h_out.status = "ok"
    /\ Len(h_out.calls) = 2

\* C27: a read batch with an identifier whose scheme has no registered
\* repository ends in a routing error that names such a scheme, and no
\* repository is called, wherever that identifier sits in the batch.
C27_UnregisteredReadRaises ==
    (h_in.op = "read" /\ ~(SchemesOf(h_in.ts_ids) \subseteq h_repos)) =>
        /\ h_out.status = "DtssHostError"
        /\ h_out.scheme \in SchemesOf(h_in.ts_ids) \ h_repos
        /\ h_out.calls = <<>>

\* C28: find_callback calls exactly the repository registered for the scheme of
\* the query and returns its answer unchanged; it raises a routing error when
\* no repository is registered for the scheme.
C28_FindDispatch ==
    h_in.op = "find" =>
        LET query == h_in.ts_ids[1]
        IN  IF query.scheme \in h_repos
            THEN /\ h_out.status = "ok"
                 /\ h_out.calls = <<[repo |-> query.scheme, ts_ids |-> <<query>>]>>
                 /\ h_out.value = RepoFind(query.scheme, query)
            ELSE h_out.status = "DtssHostError" /\ h_out.calls = <<>>

\* C29: an identifier whose scheme differs from a registered one in letter case
\* only is treated as unregistered: the callback raises a routing error and
\* calls no repository.
C29_SchemeCaseSensitive ==
    (h_in.op # "none" /\ \E sch \in SchemesOf(h_in.ts_ids) : CaseVariant(sch)) =>
        h_out.status = "DtssHostError" /\ h_out.calls = <<>>

\* ---- the history of a RateLimiter as a ring buffer ----------------------------
\* C30: with action_limit >= 1, after n timestamps have been recorded the
\* history is the last min(n, action_limit) of them, in the order in which they
\* were recorded.
C30_HistoryIsLastRecorded ==
    action_limit[1] >= 1 => History = LastN(log, Min(recorded, action_limit[1]))

\* More timestamps were recorded than the history holds, the history holds two
\* different ones, and the one evicted last differs from the oldest one kept.
C30_Witness ==
    /\ action_limit[1] >= 2
    /\ recorded > action_limit[1]
    /\ added
    /\ History[1] # History[2]
    /\ Len(log) = action_limit[1] + 1
    /\ log[1] # History[1]

\* C31: as long as only perform_action() has recorded timestamps (one caller,
\* a clock that never runs backwards), the history is ordered from the oldest
\* timestamp to the newest: no entry is newer than an entry after it.
C31_HistoryNonDecreasing ==
    ~added => \A i, j \in 1..Len(History) : i < j => History[i] >= History[j]

\* perform_action() alone has overfilled the history, at different times.
C31_Witness ==
    /\ ~added
    /\ recorded > action_limit[1]
    /\ Len(History) >= 2
    /\ History[1] > History[2]

\* ---- the decorator, step by step -----------------------------------------------
\* The context is inside a call of the wrapped function and has not yet
\* recorded the timestamp of that call in limiter 1.
BeforeRecording(t) == pc[t] \in {"wait", "check", "sleep", "perform", "raised"} /\ lvl[t] = 1

\* C32: a call of a decorated function leaves the wait only when
\* check_next_rate() has returned true, then records one timestamp (the current
\* time) in the limiter's history, and only then enters the wrapped function:
\* the number of timestamps recorded equals the number of calls that got past
\* the wait; the timestamp stays when the wrapped function raises.
C32_DecoratorOrder ==
    /\ [](calls < CountCap => recorded = IF BeforeRecording(1) THEN calls - 1 ELSE calls)
    /\ [][\A t \in Threads :
            /\ (pc[t] # "perform" /\ pc'[t] = "perform") =>
                  /\ pc[t] = "check"
                  /\ CheckRate(next_timestamps[t], action_limit[lvl[t]], timespan[lvl[t]]) = "True"
            /\ (pc[t] # "call" /\ pc'[t] = "call") =>
                  /\ pc[t] = "perform"
                  /\ recorded' = Min(recorded + 1, CountCap)
                  /\ Len(History') = Min(Len(History) + 1, action_limit[1])
                  /\ History'[Len(History')] = 0
            /\ InvokeRaises(t) => UNCHANGED <<action_timestamps, recorded>>]_allvars

\* The second call of the wrapped function has recorded its timestamp and is
\* about to enter the function.
C32_Witness == calls = 2 /\ recorded = 2 /\ pc[1] = "call" /\ has_slept[1]

\* ---- the cycles of one thread ---------------------------------------------------
\* C33: the thread that start() creates for a Service with a task is at the
\* top of its loop, so its first cycle begins without a sleep before it; and a
\* thread enters the task only from the while condition, reaches the while
\* condition again only from the end of a sleep, and sleeps only after the task
\* has returned.
C33_CyclesSeparatedBySleep ==
    [][\A s \in Members :
          /\ (Start(s) /\ s_task[s]) => th'[s] = [st |-> "loop", cl |-> TRUE, i |-> 0]
          /\ ~(Start(s) \/ Restart(s)) =>
                /\ (th'[s].st = "task" /\ th[s].st # "task") => th[s].st = "loop"
                /\ (th'[s].st = "loop" /\ th[s].st # "loop") => th[s].st = "sleep"
                /\ (th'[s].st = "sleep" /\ th[s].st # "sleep") => th[s].st = "task"]_allvars

\* The task is in its second cycle.
C33_Witness == c_cycle = 2 /\ th[1].st = "task" /\ c_pc = "read"

\* ==== Part 5: NetatmoRepository._get_measurements_block ========================
\* (src/weather/data_sources/netatmo/repository.py)  __init__ (lines 56-58) wraps
\* the method in the decorator of every limiter of self.rate_limiters; limiter 1
\* of the model is the outermost wrapper, the last limiter of the list.  A call
\* runs the wrappers (Call, WaitBegin, WaitEnd, SleepEnd, Perform above) and
\* then the body of the method, which itself waits for every limiter and adds a
\* timestamp to every limiter before it fetches.
BodyFrame == UNCHANGED <<dvars, svars, config, calls>>

\* lines 90-114: the body of the method is entered
BodyEnter(t) ==
    /\ pc[t] = "call"
    /\ pc' = [pc EXCEPT ![t] = "bwait"]
    /\ lvl' = [lvl EXCEPT ![t] = depth]
    /\ UNCHANGED <<log, action_timestamps, next_timestamps, slept, has_slept, ret, recorded, added,
                   invoked>>
    /\ BodyFrame

\* line 115, wait_for_rate_limiters (lines 75-78): limiter.check_next_and_wait()
\* for each limiter of the list in turn; check_next_rate builds next_timestamps
BodyWaitBegin(t) ==
    /\ pc[t] = "bwait"
    /\ next_timestamps' = [next_timestamps EXCEPT ![t] = NextTimestamps(action_timestamps[lvl[t]])]
    /\ pc' = [pc EXCEPT ![t] = "bcheck"]
    /\ UNCHANGED <<log, action_timestamps, lvl, slept, has_slept, ret, recorded, added, invoked>>
    /\ BodyFrame

\* _check_rate decides: sleep, or go on to the next limiter of the list
BodyWaitEnd(t) ==
    /\ pc[t] = "bcheck"
    /\ LET r == CheckRate(next_timestamps[t], action_limit[lvl[t]], timespan[lvl[t]])
       IN  IF r = "True"
           THEN IF lvl[t] > 1
                THEN pc' = [pc EXCEPT ![t] = "bwait"] /\ lvl' = [lvl EXCEPT ![t] = @ - 1]
                ELSE pc' = [pc EXCEPT ![t] = "badd"] /\ lvl' = lvl
           ELSE pc' = [pc EXCEPT ![t] = IF r = "False" THEN "bsleep" ELSE "raised"] /\ lvl' = lvl
    /\ next_timestamps' = [next_timestamps EXCEPT ![t] = <<>>]
    /\ slept' = [slept EXCEPT ![t] = 0]
    /\ UNCHANGED <<log, action_timestamps, has_slept, ret, recorded, added, invoked>>
    /\ BodyFrame

BodySleepEnd(t) ==
    /\ pc[t] = "bsleep"
    /\ slept[t] >= wait_time[lvl[t]]
    /\ pc' = [pc EXCEPT ![t] = "bwait"]
    /\ has_slept' = [has_slept EXCEPT ![t] = TRUE]
    /\ slept' = [slept EXCEPT ![t] = 0]
    /\ UNCHANGED <<log, action_timestamps, lvl, next_timestamps, ret, recorded, added, invoked>>
    /\ BodyFrame

\* line 116, add_action_timestamp_to_rate_limiters(utctime_now()) (lines 80-83):
\* the one timestamp read at line 116 is appended to every limiter
BodyAdd(t) ==
    /\ pc[t] = "badd"
    /\ action_timestamps' =
          [l \in Limiters |->
              IF l <= depth THEN DequeAppend(action_timestamps[l], 0, action_limit[l])
              ELSE action_timestamps[l]]
    /\ recorded' = Min(recorded + 1, CountCap)
    /\ log' = Logged(log, 0)
    /\ added' = TRUE
    /\ pc' = [pc EXCEPT ![t] = "fetch"]
    /\ UNCHANGED <<lvl, next_timestamps, slept, has_slept, ret, invoked>>
    /\ BodyFrame

\* lines 120-126: self.device_data.getMeasure(...), the request to the Netatmo
\* servers; the method then returns through the wrappers
Fetch(t) ==
    /\ pc[t] = "fetch"
    /\ invoked' = LastN(Append(invoked, 0), InvokedKept)
    /\ pc' = [pc EXCEPT ![t] = "idle"]
    /\ UNCHANGED <<log, action_timestamps, lvl, next_timestamps, slept, has_slept, ret, recorded,
                   added>>
    /\ BodyFrame

\* A NetatmoRepository with MaxWrappers limiters and one caller.
InitNetatmo == InitDouble

NextNetatmo ==
    \/ Tick
    \/ Call(1)
    \/ WaitBegin(1)
    \/ WaitEnd(1)
    \/ SleepEnd(1)
    \/ Perform(1)
    \/ BodyEnter(1)
    \/ BodyWaitBegin(1)
    \/ BodyWaitEnd(1)
    \/ BodySleepEnd(1)
    \/ BodyAdd(1)
    \/ Fetch(1)

SpecNetatmo == InitNetatmo /\ [][NextNetatmo]_allvars

\* C34: every fetch adds exactly one timestamp to the history of every limiter:
\* between calls each history holds as many timestamps as fetches were made,
\* up to its capacity.
C34_OneTimestampPerFetch ==
    pc[1] = "idle" =>
        \A l \in 1..depth : Len(action_timestamps[l]) = Min(Len(invoked), action_limit[l])

\* C35: whatever start(), stop() and restart() calls were made on a Service,
\* stop() reaches every thread of the Service that is still alive: when stop()
\* has returned, each of them has been told to end (continue_loop is False),
\* the thread Service.thread refers to and the threads of earlier start() calls.
C35_StopReachesEveryContext ==
    (obs.op = "stop" /\ s_task[obs.svc]) =>
        /\ ~Running(obs.svc)
        /\ \A r \in orph : r.owner = obs.svc => ~r.cl

\* ---- a sweep in which a callback of a member raises --------------------------
\* check_service_health_and_restart (lines 190-195) calls service.healthy() and
\* service.restart() outside any try statement, and so does ServiceLoop.__call__
\* (line 47) with the task: an exception of health_check_action (line 98) leaves
\* healthy(), one of restart_action (line 121) leaves restart() after stop() and
\* before start(); either leaves the for loop, the task and the thread.
Callbacks == {"health_check_action", "restart_action"}

SweepRaise(h, callback) ==
    /\ Exists(h)
    /\ h.st = "task"
    /\ h.owner = Maintainer
    /\ h.i <= Len(services)
    /\ LET m == services[h.i]
           X == IF callback = "restart_action"
                THEN Called(ServiceStop(XState, m), "restart_action")
                ELSE XState
       IN  /\ callback = "restart_action" => (NeedsRestart(XState, m) /\ s_ra[m])
           /\ Apply(Moved(X, h, "dead", 0))
           /\ obs' = [op |-> "sweep", svc |-> m, ret |-> callback, trace |-> X.trace,
                      before |-> th[m]]
    /\ ThreadFrame

NextManagerRaises ==
    \/ NextManager
    \/ \E callback \in Callbacks : SweepRaise(Current(Maintainer), callback)
    \/ \E r \in orph, callback \in Callbacks : SweepRaise(Orphan(r), callback)

SpecManagerRaises == InitManager /\ [][NextManagerRaises]_allvars

\* C36: a health_check_action or restart_action that raises during a sweep
\* does not end the maintainer: in no step does a thread of the maintainer that
\* was not told to stop come to its end, and the sweep goes on to the members
\* after the one whose callback raised.
C36_MaintainerSurvivesRaise ==
    [][/\ Running(Maintainer) => IsAlive(th'[Maintainer])
       /\ \A callback \in Callbacks :
             SweepRaise(Current(Maintainer), callback) =>
                 th'[Maintainer] = [th[Maintainer] EXCEPT !.i = SweepNext(@)]]_allvars

\* C37: when the task of a Service raises, the thread of that Service ends and
\* no other thread is touched; a Service whose thread has ended is not healthy;
\* and while the maintainer keeps running, a sweep starts a new thread for a
\* registered member whose thread has ended.
C37_RaisedTaskIsRestarted ==
    /\ [][\A s \in Members :
             TaskRaise(Current(s)) =>
                 /\ th'[s] = [th[s] EXCEPT !.st = "dead"]
                 /\ \A o \in Svc \ {s} : th'[o] = th[o]
                 /\ orph' = orph]_allvars
    /\ [](\A s \in Members : (s_task[s] /\ th[s].st = "dead") => ~ServiceHealthy(XState, s))
    /\ \A s \in Members :
          (th[s].st = "dead" /\ s \in Registered /\ MaintainerRunning)
              ~> \/ RestartedBySweep(s)
                 \/ ~MaintainerRunning
                 \/ obs.op = "restart_services"

\* A sweep has started a new thread for a member whose task had raised (its
\* thread ended without having been told to), while the thread of another
\* member is running.
C37_Witness ==
    /\ obs.op = "sweep"
    /\ obs.ret = "False"
    /\ obs.before = [st |-> "dead", cl |-> TRUE, i |-> 0]
    /\ RestartedBySweep(obs.svc)
    /\ MaintainerRunning
    /\ \E o \in Members \ {obs.svc} : Running(o)

\* The members the running sweep of the maintainer has gone past.
Examined == {services[k] : k \in 1..(th[Maintainer].i - 1)}

\* C38: a Service with a task that add_service() adds while the maintainer is
\* running, a sweep in progress or not, is examined and thereby started by the
\* sweep in progress or by the next one: every member a sweep has gone past has
\* a thread, a sweep examines the members one by one in the order of the list
\* (none skipped, none twice) and ends only behind the last member of the list
\* as it is then, and a registered member that was never started is started
\* while the maintainer keeps running.
C38_AddedMemberIsStarted ==
    /\ [](th[Maintainer].st = "task" =>
             /\ th[Maintainer].i \in 1..(Len(services) + 1)
             /\ \A m \in Examined : s_task[m] => th[m].st # "none")
    /\ [][(th[Maintainer].st = "task" /\ ~(StartServices \/ RestartServices)) =>
             \/ th'[Maintainer] = th[Maintainer]
             \/ /\ th'[Maintainer] = [th[Maintainer] EXCEPT !.i = @ + 1]
                /\ obs'.op = "sweep"
                /\ obs'.svc = services[th[Maintainer].i]
             \/ /\ th'[Maintainer] = [th[Maintainer] EXCEPT !.st = "sleep", !.i = 0]
                /\ th[Maintainer].i = Len(services) + 1
             \/ th'[Maintainer] = [th[Maintainer] EXCEPT !.cl = FALSE]]_allvars
    /\ \A s \in Members :
          (s \in Registered /\ s_task[s] /\ th[s].st = "none" /\ MaintainerRunning)
              ~> (RestartedBySweep(s) \/ ~MaintainerRunning \/ obs.op = "restart_services")

\* Member 2, which add_service() added after start_services() (member 1 and
\* the maintainer were running, it had no thread), has been started by a sweep.
C38_Witness ==
    /\ Len(services) = 2
    /\ RestartedBySweep(2)
    /\ obs.before = NoThread
    /\ th[Maintainer] = [st |-> "task", cl |-> TRUE, i |-> 3]
    /\ IsAlive(th[1])

\* C39: when stop_services() has returned, every thread of the maintainer and
\* of the members has been told to end, and from then on no thread is started
\* until start_services() or restart_services() is called, whether or not a
\* sweep was in progress when stop_services() was called.
C39_StoppedStaysStopped ==
    /\ [](obs.op = "stop_services" =>
             /\ \A s \in Svc : ~Running(s)
             /\ \A r \in orph : ~r.cl)
    /\ [][(~MaintainerRunning /\ ~(StartServices \/ RestartServices)) =>
             \A s \in Svc : (IsAlive(th'[s]) /\ th'[s].cl) => Running(s)]_allvars


====
